---- MODULE Spec2Model ----
(***************************************************************************)
(* Presence guard (yousefhakem/faceDetect): the detection-to-decision loop *)
(* of src/presence_guard.py and the lock cascade lock_session of           *)
(* src/presence_guard.py and src/face_detect.py.                           *)
(*                                                                         *)
(* Time is counted in ticks of 0.05 s, the largest unit in which           *)
(* CHECK_INTERVAL (0.35 s), LOCK_COOLDOWN (4 s) and ABSENCE_TIMEOUT (6 s)  *)
(* are all whole numbers.  Face distances are counted in hundredths.       *)
(* The switches of the configuration block of presence_guard.py that       *)
(* select code paths (USE_BLUETOOTH, USE_CNN_FALLBACK, ENCODING_EVERY_N,   *)
(* ABSENCE_TIMEOUT) are state chosen at start-up.                          *)
(*                                                                         *)
(* main's locals that are assigned before every use in an iteration        *)
(* (now, n_faces, authorized) and the frame of a returned lock_session     *)
(* call hold no information once they are dead; the model resets them at   *)
(* the end of the iteration, so that two states differ only in what the    *)
(* program can still read.  A value of -1 stands for "not assigned".       *)
(***************************************************************************)
EXTENDS Integers, Sequences, FiniteSets, TLC

\* ------------------------------------------------------------------ bounds
\* the loop takes no new iteration after MaxIter iterations, except in front
\* of a scene that has become empty for good: there it goes on until it has
\* made a lock attempt, or MaxTime ticks have passed since last_seen_someone
MaxIter == 3
MaxTime == 130
\* the scene can become empty for good after 0..MaxDepart iterations
MaxDepart == 1
\* the capture and detection of one frame take no time or SlowDetect ticks
SlowDetect == 33
\* the face locator reports 0..MaxFaces regions
MaxFaces == 2
\* the enrolled set holds 1..MaxKnown embeddings
MaxKnown == 2
\* ENCODING_EVERY_N is drawn from 1..MaxEveryN
MaxEveryN == 2
\* the enrollment directory holds 0..MaxFiles files
MaxFiles == 3

\* ------------------------------------------------------- program constants
\* presence_guard.py: ALLOWED_TOLERANCE = 0.65, in hundredths
ALLOWED_TOLERANCE == 65
\* presence_guard.py: CHECK_INTERVAL = 0.35 s, in ticks
CHECK_INTERVAL == 7
\* presence_guard.py: LOCK_COOLDOWN = 4 s, in ticks
LOCK_COOLDOWN == 80
\* presence_guard.py: ABSENCE_TIMEOUT = 6 s, in ticks, as shipped
ABSENCE_TIMEOUT_6S == 120

\* the candidate lock commands of lock_session, in list order
cmds ==
    << "loginctl lock-sessions", "gnome-screensaver-command --lock",
       "xdg-screensaver lock", "dm-tool lock" >>

\* what subprocess.run(cmd, check=True, timeout=5) can do: return (exit status
\* 0), raise FileNotFoundError, CalledProcessError or TimeoutExpired
Outcomes == {"ok", "missing", "nonzero", "timeout"}

\* the two lock_session definitions of the repository
Variants == {"presence_guard", "face_detect"}

\* a detector call that raises instead of returning a list
Raise == -1

\* distances the matcher can report: around the tolerance, both sides
Dists == {ALLOWED_TOLERANCE - 1, ALLOWED_TOLERANCE, ALLOWED_TOLERANCE + 1}

\* durations of the capture and detection of one frame
Delays == {0, SlowDetect}

VARIABLES
    USE_BLUETOOTH,      \* configuration switch (presence_guard.py:21)
    USE_CNN_FALLBACK,   \* configuration switch (presence_guard.py:28)
    ENCODING_EVERY_N,   \* configuration value (presence_guard.py:29)
    ABSENCE_TIMEOUT,    \* configuration value (presence_guard.py:20), in ticks
    boot,               \* start-up of main: the enrollment files, the encodings
                        \* loaded, the start-up log, the camera, the exit status
    scene,              \* "any", or "empty": from now on every frame shows no face
    pc,                 \* position of main() in its loop, or of a lone lock_session call
    clock,              \* wall clock, in ticks
    now,                \* main's local now (line 173)
    last_seen_someone,  \* main's local last_seen_someone
    frame_i,            \* main's local frame_i
    n_faces,            \* main's local n_faces
    authorized,         \* main's local authorized
    cmd_i,              \* lock_session: index in cmds of the next command
    invoked,            \* lock_session: indices of the commands run, in order
    tried,              \* lock_session: whether each command run succeeded
    lockLog,            \* lock_session: the log lines of the current call
    lock_ret,           \* lock_session: "none" while running, else "True"/"False"
    lk,                 \* a lone lock_session call: its variant and each command's outcome
    it,                 \* history of the current iteration
    iter,               \* number of completed loop iterations
    coolPending,        \* a lock attempt was made and its cooldown has not been slept
    absentSince,        \* the iteration of the first zero-face lock since the last
                        \* authorized iteration, or -1
    emptyLocked,        \* a lock attempt was made since the scene became empty
    authAt,             \* main's now in the latest iteration whose verdict was
                        \* authorized; the time of start-up while there is none
    exit_cause,         \* how the try block was left: "none", "interrupt", "crash"
    exit_at,            \* where main was when the try block was left
    released            \* number of cap.release() calls

vars ==
    << USE_BLUETOOTH, USE_CNN_FALLBACK, ENCODING_EVERY_N, ABSENCE_TIMEOUT, boot,
       scene, pc, clock, now,
       last_seen_someone, frame_i, n_faces, authorized, cmd_i, invoked, tried,
       lockLog, lock_ret, lk, it, iter, coolPending, absentSince, emptyLocked,
       authAt, exit_cause, exit_at, released >>

\* what no step of the loop or of lock_session writes
cfgVars ==
    << USE_BLUETOOTH, USE_CNN_FALLBACK, ENCODING_EVERY_N, ABSENCE_TIMEOUT, boot, lk >>
exitVars == << exit_cause, exit_at, released >>
lockVars == << cmd_i, invoked, tried, lockLog, lock_ret >>

\* ----------------------------------------------------------- pure helpers
Min(S) == CHOOSE x \in S : \A y \in S : x <= y

\* the history of an iteration that has not started
\*   phone   the reply to the companion query, "none" when none was made
\*   frame   "ok" or "failed" once latest_frame has returned
\*   hog, cnn, ident   number of runs of the two detectors and of the encoder
\*   primary, fallback   what the HOG and the CNN detector returned (a number
\*           of regions, or Raise), 0 while the detector has not run
\*   fi      frame_i as the sampling test of line 196 read it
\*   enc     what face_encodings did: "ok", "empty", "raise", or "-" (not run)
\*   dists   the set of distances of the detected face to the enrolled embeddings
\*   raised  the capability that raised in this iteration
\*   locks   number of lock_session calls; site: the lock site; ret: its result
NoIter ==
    [ phone |-> "none", frame |-> "none", hog |-> 0, cnn |-> 0, ident |-> 0,
      primary |-> 0, fallback |-> 0,
      fi |-> -1, enc |-> "-", dists |-> {}, raised |-> "none",
      locks |-> 0, site |-> "none", ret |-> "none", log |-> << >> ]

\* latest_frame: three grab() calls, then retrieve(); read() when retrieve()
\* fails.  TRUE when a frame is returned, FALSE when None is.
latest_frame(retrieve_ok, read_ok) == IF retrieve_ok THEN TRUE ELSE read_ok

\* a gate that takes a failed query for a connected phone
is_phone_present_failopen(reply) == reply # "not_connected"

\* is_phone_present: TRUE only when bluetoothctl ran and its output holds
\* "Connected: yes"; an exception is logged and gives FALSE
PhoneReplies == {"connected", "not_connected", "error"}
is_phone_present(reply) == reply = "connected"

\* what a face_locations call can do: return a number of regions, or raise
DetOutcomes == (0 .. MaxFaces) \cup {Raise}

\* a detector that runs the CNN pass whenever the fallback is enabled
detect_faces_rgb_always(hog, cnn, fallback) ==
    IF hog = Raise THEN [locs |-> Raise, hog |-> 1, cnn |-> 0]
    ELSE IF fallback THEN [locs |-> cnn, hog |-> 1, cnn |-> 1]
    ELSE [locs |-> hog, hog |-> 1, cnn |-> 0]

\* detect_faces_rgb: HOG first; CNN once when HOG found nothing and the
\* fallback is enabled.  locs is the number of regions returned, or Raise
\* when a face_locations call raised; hog and cnn count the detector runs.
detect_faces_rgb(hog, cnn, fallback) ==
    IF hog = Raise THEN [locs |-> Raise, hog |-> 1, cnn |-> 0]
    ELSE IF hog = 0 /\ fallback THEN [locs |-> cnn, hog |-> 1, cnn |-> 1]
    ELSE [locs |-> hog, hog |-> 1, cnn |-> 0]

\* the timeout test written with > for >=
AbsenceExpired_strict(t, seen) == (t - seen) > ABSENCE_TIMEOUT

\* line 180: (now - last_seen_someone).total_seconds() >= ABSENCE_TIMEOUT
AbsenceExpired(t, seen) == (t - seen) >= ABSENCE_TIMEOUT

\* a branch that gives several faces the grace period of an empty frame
FaceBranch_grace(n, t, seen) ==
    IF n # 1
      THEN IF AbsenceExpired(t, seen)
             THEN IF n = 0 THEN "absent" ELSE "multiple"
             ELSE "wait"
      ELSE "identify"

\* lines 176-192 and 194: the branch main takes on n faces at time t
FaceBranch(n, t, seen) ==
    IF n # 1
      THEN IF n = 0
             THEN IF AbsenceExpired(t, seen) THEN "absent" ELSE "wait"
             ELSE "multiple"
      ELSE "identify"

\* a zero-face lock that restarts the absence timer
SeenAfterAbsentLock_reset(t, seen) == t

\* line 184: the zero-face lock does not update last_seen_someone
SeenAfterAbsentLock(t, seen) == seen

\* an authorized iteration that does not refresh the presence timestamp
SeenAfterAuthorized_keep(t, seen) == seen

\* line 208: last_seen_someone = now in an authorized iteration
SeenAfterAuthorized(t, seen) == t

\* line 196: frame_i % ENCODING_EVERY_N == 0
IdentitySampled(i, every) == i % every = 0

\* lines 199-200: best = min over the enrolled set of the distance
BestDistance(dists) == Min({dists[k] : k \in DOMAIN dists})

\* the tolerance test written with < for <=
IsAuthorized_strict(best) == best < ALLOWED_TOLERANCE

\* line 202: authorized = (best <= ALLOWED_TOLERANCE)
IsAuthorized(best) == best <= ALLOWED_TOLERANCE

\* a verdict that lets an iteration whose identity check is skipped pass
Verdict_skip_ok(sampled, enc, dists) ==
    IF sampled
      THEN IF enc = "ok" THEN IsAuthorized(BestDistance(dists)) ELSE FALSE
      ELSE TRUE

\* lines 195-204: the verdict of a single-face iteration.  enc is what
\* face_encodings did: "ok" (a list with an encoding) or "none" (an empty
\* list); dists are the distances of encs[0] to the enrolled embeddings.
Verdict(sampled, enc, dists) ==
    IF sampled
      THEN IF enc = "ok" THEN IsAuthorized(BestDistance(dists)) ELSE FALSE
      ELSE FALSE

\* the history of an iteration that calls lock_session at a lock site
Locking(h, site) == [h EXCEPT !.locks = @ + 1, !.site = site]

\* the history of an iteration that logs a line
Logging(h, line) == [h EXCEPT !.log = Append(@, line)]

\* ------------------------------------------------------------ lock_session
\* lock_session is entered: nothing run yet
EnterLock ==
    /\ cmd_i' = 1
    /\ invoked' = << >>
    /\ tried' = << >>
    /\ lockLog' = << >>
    /\ lock_ret' = "none"

\* main calls lock_session() (lines 156, 182, 189, 213)
CallLock ==
    /\ pc' = "lock"
    /\ coolPending' = TRUE
    /\ EnterLock

\* whether a failing command is logged: presence_guard.py logs none (line
\* 65-66); face_detect.py logs in its last handler only, not for
\* FileNotFoundError or CalledProcessError (lines 68-73)
LogsFailure(variant, o) ==
    variant = "face_detect" /\ o \notin {"missing", "nonzero"}

\* a cascade that skips the command after a failing one
NextCommand_skip(i) == i + 2

\* the for loop of lock_session goes on to the next command after a failure
NextCommand(i) == i + 1

\* a cascade that stops before its last command
CascadeDone_early(i) == i >= Len(cmds)

\* the for loop of lock_session ends when cmds is exhausted
CascadeDone(i) == i > Len(cmds)

\* one pass of the for loop of lock_session on cmds[cmd_i] with outcome o, and
\* the lines after the loop when that was the last command
TryCommand(variant, o) ==
    /\ invoked' = Append(invoked, cmd_i)
    /\ tried' = Append(tried, o = "ok")
    /\ IF o = "ok"
         THEN /\ lockLog' = Append(lockLog, << "Locked via", cmds[cmd_i] >>)
              /\ lock_ret' = "True"
              /\ cmd_i' = cmd_i
         ELSE LET l1 == IF LogsFailure(variant, o)
                          THEN Append(lockLog, << "Lock attempt error", cmds[cmd_i] >>)
                          ELSE lockLog
              IN /\ cmd_i' = NextCommand(cmd_i)
                 /\ IF CascadeDone(cmd_i')
                      THEN /\ lockLog' = Append(l1, << "All lock commands failed." >>)
                           /\ lock_ret' = "False"
                      ELSE /\ lockLog' = l1
                           /\ lock_ret' = "none"

\* lock_session called on its own, one command per step: either definition,
\* with the outcome of each command fixed beforehand
LoneLock ==
    /\ pc = "call"
    /\ TryCommand(lk.variant, lk.outcomes[cmd_i])
    /\ pc' = IF lock_ret' = "none" THEN "call" ELSE "returned"
    /\ UNCHANGED << cfgVars, scene, clock, now, last_seen_someone, frame_i,
                    n_faces, authorized, it, iter, coolPending, absentSince,
                    emptyLocked, authAt, exitVars >>

\* --------------------------------------------------- main loop, by position
\* whether main takes another iteration (a bound of the model, not of main)
MayIterate ==
    \/ iter < MaxIter
    \/ scene = "empty" /\ ~emptyLocked /\ clock <= last_seen_someone + MaxTime

\* what the camera can show
ReadReplies == IF scene = "empty" THEN {TRUE} ELSE BOOLEAN
SceneFaces == IF scene = "empty" THEN {0} ELSE DetOutcomes

\* lines 152-158: top of the loop and the optional companion-device gate
LoopTop ==
    /\ pc = "top"
    /\ MayIterate
    /\ \E reply \in PhoneReplies :
         LET h == [NoIter EXCEPT !.phone = IF USE_BLUETOOTH THEN reply ELSE "none"]
         IN IF USE_BLUETOOTH /\ ~is_phone_present(reply)
              THEN /\ it' = Locking(Logging(h, "Phone not present; locking for safety."),
                                    "phone")
                   /\ CallLock
                   /\ emptyLocked' = (scene = "empty")
              ELSE /\ it' = h
                   /\ pc' = "read"
                   /\ UNCHANGED << lockVars, coolPending, emptyLocked >>
    /\ UNCHANGED << cfgVars, scene, clock, now, last_seen_someone, frame_i,
                    n_faces, authorized, iter, absentSince, authAt, exitVars >>

\* a loop that takes a failed read for an empty room and runs the cascade
AfterReadFailure_lock == "lock"

\* lines 161-164: after a failed read main is at time.sleep(CHECK_INTERVAL)
AfterReadFailure == "sleep"

\* lines 160-164: frame = latest_frame(cap)
ReadFrame ==
    /\ pc = "read"
    /\ \E retrieve_ok \in ReadReplies, read_ok \in ReadReplies :
         IF latest_frame(retrieve_ok, read_ok)
           THEN /\ it' = [it EXCEPT !.frame = "ok"]
                /\ pc' = "detect"
           ELSE /\ it' = Logging([it EXCEPT !.frame = "failed"],
                                 "Failed to read from webcam, retrying...")
                /\ pc' = AfterReadFailure
    /\ UNCHANGED << cfgVars, scene, clock, now, last_seen_someone, frame_i,
                    n_faces, authorized, lockVars, iter, coolPending, absentSince,
                    emptyLocked, authAt, exitVars >>

\* leaving the try block by an exception (line 221) or KeyboardInterrupt
\* (line 219), with the iteration's history h
LeaveLoop(cause, h) ==
    /\ pc' = "finally"
    /\ exit_cause' = cause
    /\ exit_at' = pc
    /\ it' = h
    /\ UNCHANGED << cfgVars, scene, clock, now, last_seen_someone, frame_i,
                    n_faces, authorized, lockVars, iter, coolPending, absentSince,
                    emptyLocked, authAt, released >>

\* lines 166-192: detection, now = datetime.now(), and the branch on n_faces
DetectFaces ==
    /\ pc = "detect"
    /\ \E hog \in SceneFaces, cnn \in SceneFaces, d \in Delays :
         LET r == detect_faces_rgb(hog, cnn, USE_CNN_FALLBACK)
             h0 == [it EXCEPT !.hog = r.hog, !.cnn = r.cnn, !.primary = hog,
                              !.fallback = IF r.cnn = 1 THEN cnn ELSE 0]
             t == clock + d
         IN IF r.locs = Raise
              THEN LeaveLoop("crash", [h0 EXCEPT !.raised = "locator"])
              ELSE LET h1 == Logging(h0, "Detected n face(s)")
                       b == FaceBranch(r.locs, t, last_seen_someone)
                   IN
                   /\ clock' = t
                   /\ n_faces' = r.locs
                   /\ now' = t
                   /\ IF b = "identify"
                        THEN /\ it' = h1
                             /\ pc' = "identify"
                             /\ UNCHANGED << lockVars, coolPending, absentSince,
                                             emptyLocked, last_seen_someone >>
                        ELSE IF b = "absent"
                        THEN /\ it' = Locking(Logging(h1, "No faces for timeout -> locking"),
                                              "absent")
                             /\ absentSince' = IF absentSince = -1 THEN iter ELSE absentSince
                             /\ last_seen_someone' = SeenAfterAbsentLock(t, last_seen_someone)
                             /\ emptyLocked' = (scene = "empty")
                             /\ CallLock
                        ELSE IF b = "wait"
                        THEN /\ it' = Logging(h1, "No face seen yet; waiting for timeout...")
                             /\ pc' = "sleep"
                             /\ UNCHANGED << lockVars, coolPending, absentSince,
                                             emptyLocked, last_seen_someone >>
                        ELSE /\ it' = Locking(Logging(h1, "Multiple faces detected -> locking"),
                                              "multiple")
                             /\ CallLock
                             /\ UNCHANGED << absentSince, emptyLocked, last_seen_someone >>
                   /\ UNCHANGED << cfgVars, scene, frame_i, authorized, iter, authAt,
                                   exitVars >>

\* lines 194-214: the identity check of a single-face iteration
Identify ==
    /\ pc = "identify"
    /\ \E e \in {"ok", "empty", "raise"}, k \in 1 .. MaxKnown :
       \E ds \in [1 .. k -> Dists] :
         LET sampled == IdentitySampled(frame_i, ENCODING_EVERY_N)
             enc == IF sampled THEN e ELSE "-"
             dists == IF enc = "ok" THEN ds ELSE << >>
             h0 == [it EXCEPT !.fi = frame_i, !.enc = enc,
                              !.dists = {dists[j] : j \in DOMAIN dists},
                              !.ident = IF sampled THEN 1 ELSE 0]
         IN IF enc = "raise"
              THEN LeaveLoop("crash", [h0 EXCEPT !.raised = "encoder"])
              ELSE LET v == Verdict(sampled, enc, dists)
                       h1 == IF enc = "ok"
                               THEN Logging(h0, "Best face distance")
                             ELSE IF enc = "empty"
                               THEN Logging(h0, "Could not compute encoding on this frame; treating as unauthorized.")
                             ELSE h0
                   IN /\ authorized' = v
                      /\ IF v
                           THEN /\ last_seen_someone' = SeenAfterAuthorized(now, last_seen_someone)
                                /\ authAt' = now
                                /\ absentSince' = -1
                                /\ it' = Logging(h1, "Authorized face present - all good.")
                                /\ frame_i' = frame_i + 1
                                /\ pc' = "sleep"
                                /\ UNCHANGED << lockVars, coolPending >>
                           ELSE /\ it' = Locking(Logging(h1, "Single face not authorized -> locking"),
                                                 "unauthorized")
                                /\ CallLock
                                /\ UNCHANGED << last_seen_someone, frame_i, absentSince,
                                                authAt >>
                      /\ UNCHANGED << cfgVars, scene, clock, now, n_faces, iter,
                                      emptyLocked, exitVars >>

\* a zero-face lock site without its time.sleep(LOCK_COOLDOWN)
AfterLock_nocooldown(site) == IF site = "absent" THEN "sleep" ELSE "cooldown"

\* where main is when lock_session has returned: at the time.sleep(LOCK_COOLDOWN)
\* that follows each call (lines 157, 183, 190, 214)
AfterLock(site) == "cooldown"

\* lock_session (presence_guard.py) called by main, one command per step
LockStep ==
    /\ pc = "lock"
    /\ \E o \in Outcomes : TryCommand("presence_guard", o)
    /\ pc' = IF lock_ret' = "none" THEN "lock" ELSE AfterLock(it.site)
    /\ it' = [it EXCEPT !.ret = lock_ret']
    /\ UNCHANGED << cfgVars, scene, clock, now, last_seen_someone, frame_i,
                    n_faces, authorized, iter, coolPending, absentSince,
                    emptyLocked, authAt, exitVars >>

\* the end of an iteration: what the next one cannot read is reset
EndIteration ==
    /\ pc' = "top"
    /\ iter' = iter + 1
    /\ it' = NoIter
    /\ now' = -1
    /\ n_faces' = -1
    /\ authorized' = FALSE

\* time.sleep(LOCK_COOLDOWN) after a lock attempt (lines 157, 183, 190, 214);
\* line 158 continues, lines 183 and 190 fall to line 191, line 214 to 216
Cooldown ==
    /\ pc = "cooldown"
    /\ clock' = clock + LOCK_COOLDOWN
    /\ coolPending' = FALSE
    /\ EnterLock
    /\ frame_i' = IF it.site = "unauthorized" THEN frame_i + 1 ELSE frame_i
    /\ IF it.site = "phone"
         THEN EndIteration
         ELSE /\ pc' = "sleep"
              /\ UNCHANGED << it, iter, now, n_faces, authorized >>
    /\ UNCHANGED << cfgVars, scene, last_seen_someone, absentSince, emptyLocked,
                    authAt, exitVars >>

\* time.sleep(CHECK_INTERVAL) (lines 163, 191, 217), the end of an iteration
SleepCheck ==
    /\ pc = "sleep"
    /\ clock' = clock + CHECK_INTERVAL
    /\ EndIteration
    /\ UNCHANGED << cfgVars, scene, last_seen_someone, frame_i, lockVars,
                    coolPending, absentSince, emptyLocked, authAt, exitVars >>

LoopPcs == {"top", "read", "detect", "identify", "lock", "cooldown", "sleep"}

\* KeyboardInterrupt anywhere in the try block (line 219); the scene "empty"
\* is watched without interruption
Interrupt ==
    /\ pc \in LoopPcs
    /\ scene = "any"
    /\ LeaveLoop("interrupt", it)

\* the environment: whoever was there leaves for good between two iterations,
\* and from then on every frame is read and shows no face
Depart ==
    /\ pc = "top"
    /\ scene = "any"
    /\ iter <= MaxDepart
    /\ scene' = "empty"
    /\ UNCHANGED << cfgVars, pc, clock, now, last_seen_someone, frame_i, n_faces,
                    authorized, lockVars, it, iter, coolPending, absentSince,
                    emptyLocked, authAt, exitVars >>

\* a finally block that leaves the camera open
cap_release_leak(n) == n

\* cap.release() (presence_guard.py line 224, face_detect.py line 146): one
\* more release of the camera
cap_release(n) == n + 1

\* finally: cap.release() (line 224), then main returns; the iteration it
\* was in is over, and what belongs to it is reset as at the end of one
Finally ==
    /\ pc = "finally"
    /\ released' = cap_release(released)
    /\ pc' = "exited"
    /\ now' = -1
    /\ n_faces' = -1
    /\ authorized' = FALSE
    /\ EnterLock
    /\ it' = NoIter
    /\ UNCHANGED << cfgVars, scene, clock, last_seen_someone, frame_i, iter,
                    coolPending, absentSince, emptyLocked, authAt, exit_cause,
                    exit_at >>

\* ------------------------------------------------------------------ start-up
\* the files of the enrollment directory, by what loading one does:
\*   faces  the number of regions face_locations finds in the image, or Raise
\*          when load_image_file or face_locations raises
\*   enc    what face_encodings does on these regions: "ok" (an embedding per
\*          region), "empty" (an empty list), "raise"; "-" when it is not called
FileKinds ==
    {[faces |-> Raise, enc |-> "-"], [faces |-> 0, enc |-> "-"]}
      \cup [faces : 1 .. MaxFaces, enc : {"ok", "empty", "raise"}]

\* main before its first statement, in either file
\*   dir        "unchecked", "present" or "missing"
\*   nfiles     the number of files glob returns
\*   files      the kinds of the files loaded so far, in order
\*   encodings  the list encodings: << file, face >> for each embedding appended
\*   log        the lines logged by start-up
\*   probes     the number of cv2.VideoCapture calls
\*   cam        the index of the open camera, -1 while none is open
\*   exit       the status of sys.exit, -1 while it was not called
Booting(v) ==
    [ variant |-> v, dir |-> "unchecked", nfiles |-> 0, files |-> << >>,
      encodings |-> << >>, log |-> << >>, probes |-> 0, cam |-> -1,
      exit |-> -1, cause |-> "none" ]

\* main of presence_guard.py once in its loop: what start-up left is no
\* longer read, except the open camera
Booted == [Booting("presence_guard") EXCEPT !.dir = "present", !.cam = 0]

\* a loader that keeps an embedding for every face of an image
load_one_all_faces(variant, kind, i, b) ==
    IF kind.faces = Raise \/ kind.enc = "raise"
      THEN [b EXCEPT !.log = Append(@, << "Error loading", i >>)]
    ELSE IF kind.faces = 0
      THEN [b EXCEPT !.log = Append(@, << "No face found in enroll image", i >>)]
    ELSE IF kind.enc = "empty"
      THEN IF variant = "face_detect"
             THEN [b EXCEPT !.log = Append(@, << "Error loading", i >>)]
             ELSE b
    ELSE [b EXCEPT !.encodings = @ \o [f \in 1 .. kind.faces |-> << i, f >>],
                   !.log = Append(@, << "Loaded enrollment face from", i >>)]

\* one pass of the for loop of load_known_encodings on file i of the given
\* kind (presence_guard.py lines 101-114, face_detect.py lines 41-52).  An
\* empty list of embeddings is skipped silently by presence_guard.py (line
\* 110) and is an IndexError, caught and logged, in face_detect.py (line 48).
load_one(variant, kind, i, b) ==
    IF kind.faces = Raise \/ kind.enc = "raise"
      THEN [b EXCEPT !.log = Append(@, << "Error loading", i >>)]
    ELSE IF kind.faces = 0
      THEN [b EXCEPT !.log = Append(@, << "No face found in enroll image", i >>)]
    ELSE IF kind.enc = "empty"
      THEN IF variant = "face_detect"
             THEN [b EXCEPT !.log = Append(@, << "Error loading", i >>)]
             ELSE b
    ELSE [b EXCEPT !.encodings = Append(@, << i, 1 >>),
                   !.log = Append(@, << "Loaded enrollment face from", i >>)]

\* a start-up that goes on without any embedding
NoKnown_never(n) == FALSE

\* presence_guard.py line 136 (known is None or len(known) == 0) and
\* face_detect.py line 83 (not known_encodings), on n embeddings loaded
NoKnown(n) == n = 0

\* the device indices tried: 0..3 in presence_guard.py (VIDEO_DEVICE is None,
\* line 72), VIDEO_DEVICE = 0 in face_detect.py (line 91)
CameraIndices(variant) == IF variant = "presence_guard" THEN 0 .. 3 ELSE {0}

\* open_camera: the first index whose capture is opened, -1 (None) when none
\* is; probes counts the captures constructed
open_camera(indices, opens) ==
    LET good == {i \in indices : opens[i]}
    IN IF good = {}
         THEN [cam |-> -1, probes |-> Cardinality(indices)]
         ELSE [cam |-> Min(good), probes |-> Cardinality({i \in indices : i <= Min(good)})]

\* what start-up does not write
bootRest ==
    << USE_BLUETOOTH, USE_CNN_FALLBACK, ENCODING_EVERY_N, ABSENCE_TIMEOUT, lk,
       scene, clock, now, last_seen_someone, frame_i, n_faces, authorized,
       lockVars, it, iter, coolPending, absentSince, emptyLocked, authAt,
       exitVars >>

\* log(...) then sys.exit(1) (lines 132-133, 137-138, 143-144)
Exit1(b, cause, line) ==
    /\ boot' = [b EXCEPT !.exit = 1, !.cause = cause, !.log = Append(@, line)]
    /\ pc' = "exit1"

\* lines 131-133 and the glob of line 99
CheckDir ==
    /\ pc = "start"
    /\ \E present \in BOOLEAN, n \in 0 .. MaxFiles :
         IF present
           THEN /\ boot' = [boot EXCEPT !.dir = "present", !.nfiles = n]
                /\ pc' = "load"
           ELSE Exit1([boot EXCEPT !.dir = "missing"], "nodir",
                      << "Enrollment dir not found." >>)
    /\ UNCHANGED bootRest

\* one file of the for loop of load_known_encodings
LoadFile ==
    /\ pc = "load"
    /\ Len(boot.files) < boot.nfiles
    /\ \E kind \in FileKinds :
         boot' = load_one(boot.variant, kind, Len(boot.files) + 1,
                          [boot EXCEPT !.files = Append(@, kind)])
    /\ UNCHANGED << pc, bootRest >>

\* load_known_encodings returns; lines 136-138
CheckKnown ==
    /\ pc = "load"
    /\ Len(boot.files) = boot.nfiles
    /\ IF NoKnown(Len(boot.encodings))
         THEN Exit1(boot, "noknown", << "No known face encodings loaded. Exiting." >>)
         ELSE /\ pc' = "camera"
              /\ UNCHANGED boot
    /\ UNCHANGED bootRest

\* lines 141-149: the camera is opened and the loop entered, or main exits;
\* face_detect.py enters its own loop, which this position stands for
OpenCamera ==
    /\ pc = "camera"
    /\ \E opens \in [0 .. 3 -> BOOLEAN] :
         LET r == open_camera(CameraIndices(boot.variant), opens)
         IN IF r.cam = -1
              THEN Exit1([boot EXCEPT !.probes = r.probes], "nocam",
                         << "Cannot open webcam. Exiting." >>)
              ELSE /\ boot' = [Booted EXCEPT !.variant = boot.variant]
                   /\ pc' = IF boot.variant = "presence_guard" THEN "top" ELSE "fd_loop"
    /\ UNCHANGED bootRest

\* main at the entry of its loop (lines 147-149): the enrolled set is not
\* empty (line 136) and the camera is open (line 142)
InitLoop ==
    /\ USE_BLUETOOTH \in BOOLEAN
    /\ USE_CNN_FALLBACK \in BOOLEAN
    /\ ENCODING_EVERY_N \in 1 .. MaxEveryN
    /\ ABSENCE_TIMEOUT = ABSENCE_TIMEOUT_6S
    /\ boot = Booted
    /\ pc = "top"
    /\ lk = [variant |-> "presence_guard", outcomes |-> << >>]

\* lock_session called on its own
InitCall ==
    /\ USE_BLUETOOTH = FALSE
    /\ USE_CNN_FALLBACK = TRUE
    /\ ENCODING_EVERY_N = 1
    /\ ABSENCE_TIMEOUT = ABSENCE_TIMEOUT_6S
    /\ boot = Booted
    /\ pc = "call"
    /\ lk \in [variant : Variants, outcomes : [1 .. Len(cmds) -> Outcomes]]

\* the state shared by both entries: nothing observed, nothing locked yet
InitState ==
    /\ scene = "any"
    /\ clock = 0
    /\ now = -1
    /\ last_seen_someone = 0
    /\ frame_i = 0
    /\ n_faces = -1
    /\ authorized = FALSE
    /\ cmd_i = 1
    /\ invoked = << >>
    /\ tried = << >>
    /\ lockLog = << >>
    /\ lock_ret = "none"
    /\ it = NoIter
    /\ iter = 0
    /\ coolPending = FALSE
    /\ absentSince = -1
    /\ emptyLocked = FALSE
    /\ authAt = 0
    /\ exit_cause = "none"
    /\ exit_at = "none"
    /\ released = 0

Init == (InitLoop \/ InitCall) /\ InitState

\* main alone, entering its loop
InitMain == InitLoop /\ InitState

Next ==
    \/ LoopTop
    \/ ReadFrame
    \/ DetectFaces
    \/ Identify
    \/ LockStep
    \/ Cooldown
    \/ SleepCheck
    \/ Interrupt
    \/ Depart
    \/ Finally
    \/ LoneLock

Spec == Init /\ [][Next]_vars

\* main from its first statement, in either file; face_detect.py has none of
\* the switches
InitBoot ==
    /\ pc = "start"
    /\ lk = [variant |-> "presence_guard", outcomes |-> << >>]
    /\ ABSENCE_TIMEOUT = ABSENCE_TIMEOUT_6S
    /\ \/ /\ boot = Booting("presence_guard")
          /\ USE_BLUETOOTH \in BOOLEAN
          /\ USE_CNN_FALLBACK \in BOOLEAN
          /\ ENCODING_EVERY_N \in 1 .. MaxEveryN
       \/ /\ boot = Booting("face_detect")
          /\ USE_BLUETOOTH = FALSE
          /\ USE_CNN_FALLBACK = FALSE
          /\ ENCODING_EVERY_N = 1
    /\ InitState

BootNext ==
    \/ CheckDir
    \/ LoadFile
    \/ CheckKnown
    \/ OpenCamera
    \/ LoopTop
    \/ ReadFrame
    \/ DetectFaces
    \/ Identify
    \/ LockStep
    \/ Cooldown
    \/ SleepCheck
    \/ Interrupt
    \/ Depart
    \/ Finally

\* main run from start-up on
BootSpec == InitBoot /\ [][BootNext]_vars

\* a loop of face_detect.py that gives an empty frame a grace period
fd_iteration_grace(ret, n, dists, tol) ==
    IF ~ret THEN [locks |-> 0, log |-> << "Failed to read from webcam, retrying..." >>]
    ELSE IF n > 1
      THEN [locks |-> 1,
            log |-> << "Detected n face(s)",
                       "Condition failed: not exactly one person present -> locking" >>]
    ELSE IF n = 0
      THEN [locks |-> 0, log |-> << "Detected n face(s)" >>]
    ELSE IF Min(dists) <= tol
      THEN [locks |-> 0,
            log |-> << "Detected n face(s)", "Best face distance",
                       "Authorized face detected and only person present - all good." >>]
    ELSE [locks |-> 1,
          log |-> << "Detected n face(s)", "Best face distance",
                     "Unknown face detected (not authorized) -> locking" >>]

\* face_detect.py lines 101-139: one iteration of its loop, which keeps
\* nothing from one iteration to the next (last_lock_time is never read).
\* ret is the result of cap.read(), n the number of embeddings of the frame,
\* dists their distances to the enrolled set when n = 1, tol the tolerance;
\* locks is the number of lock_session() calls of the iteration.
fd_iteration(ret, n, dists, tol) ==
    IF ~ret THEN [locks |-> 0, log |-> << "Failed to read from webcam, retrying..." >>]
    ELSE IF n # 1
      THEN [locks |-> 1,
            log |-> << "Detected n face(s)",
                       "Condition failed: not exactly one person present -> locking" >>]
    ELSE IF Min(dists) <= tol
      THEN [locks |-> 0,
            log |-> << "Detected n face(s)", "Best face distance",
                       "Authorized face detected and only person present - all good." >>]
    ELSE [locks |-> 1,
          log |-> << "Detected n face(s)", "Best face distance",
                     "Unknown face detected (not authorized) -> locking" >>]

\* presence_guard.py configured as the loop of face_detect.py is: no absence
\* grace, identity checked in every single-face iteration, no companion gate
InitAsFaceDetect ==
    /\ USE_BLUETOOTH = FALSE
    /\ USE_CNN_FALLBACK \in BOOLEAN
    /\ ENCODING_EVERY_N = 1
    /\ ABSENCE_TIMEOUT = 0
    /\ boot = Booted
    /\ pc = "top"
    /\ lk = [variant |-> "presence_guard", outcomes |-> << >>]
    /\ InitState

LoopNext ==
    \/ LoopTop
    \/ ReadFrame
    \/ DetectFaces
    \/ Identify
    \/ LockStep
    \/ Cooldown
    \/ SleepCheck
    \/ Interrupt
    \/ Depart
    \/ Finally

PairSpec == InitAsFaceDetect /\ [][LoopNext]_vars

\* the loop watched without interruption
RunNext ==
    \/ LoopTop
    \/ ReadFrame
    \/ DetectFaces
    \/ Identify
    \/ LockStep
    \/ Cooldown
    \/ SleepCheck
    \/ Depart
    \/ Finally

\* main is a single thread of blocking calls that all return: while the loop
\* is not interrupted, its next step is eventually taken
FairSpec ==
    /\ InitMain
    /\ [][RunNext]_vars
    /\ WF_vars(RunNext)

\* ===================================================================== claims
\* the companion query of the current iteration found no connected phone
PhoneAbsent(h) == h.phone \in {"not_connected", "error"}

\* some distance of the detected face to the enrolled set is within tolerance
SomeWithin(h) == \E d \in h.dists : d <= ALLOWED_TOLERANCE

\* the identity check of the current iteration gave an authorized verdict:
\* it was sampled, the encoder returned an embedding, the minimum distance
\* is within the tolerance
AuthorizedCase ==
    /\ it.fi >= 0
    /\ it.fi % ENCODING_EVERY_N = 0
    /\ it.enc = "ok"
    /\ SomeWithin(it)

\* C1: an iteration whose frame was read and in which the locator returned
\* more than one face has made one lock attempt, at the multiple-faces site,
\* and has run no identity check, whatever the elapsed time and frame_i.
C1_MultipleFacesLock ==
    n_faces > 1 =>
        /\ it.frame = "ok"
        /\ it.locks = 1
        /\ it.site = "multiple"
        /\ it.ident = 0

\* C1 witness: a multiple-face iteration has locked and cooled down although
\* an authorized face was seen less than ABSENCE_TIMEOUT ago and frame_i > 0
C1_Witness ==
    /\ n_faces > 1
    /\ pc = "sleep"
    /\ it.locks = 1
    /\ frame_i > 0
    /\ now - last_seen_someone < ABSENCE_TIMEOUT

\* C2: a zero-face iteration has made a lock attempt if and only if
\* now - last_seen_someone >= ABSENCE_TIMEOUT; strictly below, it has made
\* none and has only logged the face count and that it is waiting.
C2_AbsenceTimeout ==
    n_faces = 0 =>
        IF now - last_seen_someone >= ABSENCE_TIMEOUT
          THEN it.locks = 1 /\ it.site = "absent"
          ELSE /\ it.locks = 0
               /\ it.log = << "Detected n face(s)",
                              "No face seen yet; waiting for timeout..." >>
               /\ pc \in {"sleep", "finally", "exited"}

\* C2 witness: a zero-face iteration exactly ABSENCE_TIMEOUT after
\* last_seen_someone has locked
C2_Witness ==
    /\ n_faces = 0
    /\ now - last_seen_someone = ABSENCE_TIMEOUT
    /\ it.locks = 1
    /\ pc = "sleep"

\* C3: a single-face iteration whose identity check was sampled and found a
\* minimum distance <= ALLOWED_TOLERANCE has made no lock attempt and has
\* set last_seen_someone to its own timestamp now.
C3_AuthorizedNoLock ==
    (n_faces = 1 /\ AuthorizedCase) =>
        /\ it.ident = 1
        /\ authorized
        /\ it.locks = 0
        /\ last_seen_someone = now
        /\ pc \in {"sleep", "finally", "exited"}

\* C3 witness: the nearest of two enrolled embeddings is exactly at the
\* tolerance, at a time after start-up
C3_Witness ==
    /\ n_faces = 1
    /\ pc = "sleep"
    /\ AuthorizedCase
    /\ it.dists = {ALLOWED_TOLERANCE, ALLOWED_TOLERANCE + 1}
    /\ now > 0
    /\ it.locks = 0

\* C4: a single-face iteration whose identity evaluation did not give an
\* authorized verdict (distance above the tolerance, check skipped by the
\* sampling policy, or no embedding returned) has made a lock attempt.
C4_UnauthorizedLock ==
    (n_faces = 1 /\ it.fi >= 0 /\ it.enc # "raise" /\ ~AuthorizedCase) =>
        /\ ~authorized
        /\ it.locks = 1
        /\ it.site = "unauthorized"

\* C4 witness: the identity check was skipped by the sampling policy and the
\* iteration has locked and cooled down
C4_Witness ==
    /\ n_faces = 1
    /\ it.fi >= 0
    /\ it.fi % ENCODING_EVERY_N # 0
    /\ it.ident = 0
    /\ it.locks = 1
    /\ pc = "sleep"

\* C5: a capability that raises is absorbed: after the locator raised the
\* iteration counts zero faces, after the encoder raised it is unauthorized
\* and locks, and in both cases main is still in its loop.
C5_FailuresAbsorbed ==
    /\ it.raised = "locator" => (pc \in LoopPcs /\ n_faces = 0)
    /\ it.raised = "encoder" => (pc \in LoopPcs /\ ~authorized /\ it.locks = 1)

\* C6: when the gate is enabled and is_phone_present returns False, the
\* iteration makes a lock attempt at the companion site, reads no frame, runs
\* no detector and no identity check, and changes neither last_seen_someone
\* nor frame_i.
C6_GateStep ==
    /\ PhoneAbsent(it') =>
          /\ it'.locks = 1
          /\ it'.site = "phone"
          /\ it'.frame = "none"
          /\ it'.hog = 0 /\ it'.cnn = 0 /\ it'.ident = 0
          /\ n_faces' = -1
    /\ (PhoneAbsent(it) \/ PhoneAbsent(it')) =>
          /\ last_seen_someone' = last_seen_someone
          /\ frame_i' = frame_i
C6_CompanionGate == [][C6_GateStep]_vars

\* C6 witness: the query failed, the lock attempt has been made, and an
\* authorized face had been seen in an earlier iteration
C6_Witness ==
    /\ it.phone = "error"
    /\ pc = "cooldown"
    /\ frame_i > 0
    /\ last_seen_someone > 0

\* a step that acquires an observation: the companion query or the frame read
Observes ==
    \/ pc = "top" /\ USE_BLUETOOTH /\ pc' \in {"lock", "read"}
    \/ pc = "read" /\ pc' \in {"detect", "sleep"}

\* C7: every lock attempt leaves a cooldown pending, whatever its site and
\* result; the pending cooldown ends only by a sleep of LOCK_COOLDOWN; and no
\* observation is acquired while a cooldown is pending.
C7_CooldownStep ==
    /\ it'.locks > it.locks => coolPending'
    /\ (coolPending /\ ~coolPending') => clock' >= clock + LOCK_COOLDOWN
    /\ Observes => ~coolPending
C7_Cooldown == [][C7_CooldownStep]_vars

\* C7 witness: a zero-face lock whose cascade failed has been followed by its
\* cooldown
C7_Witness ==
    /\ pc = "sleep"
    /\ it.site = "absent"
    /\ it.locks = 1
    /\ it.ret = "False"
    /\ ~coolPending
    /\ clock >= now + LOCK_COOLDOWN

\* the index of the first succeeding command of a lone call
FirstOk == Min({j \in 1 .. Len(cmds) : lk.outcomes[j] = "ok"})
SomeOk == \E j \in 1 .. Len(cmds) : lk.outcomes[j] = "ok"
LockedLines == {j \in 1 .. Len(lockLog) : lockLog[j][1] = "Locked via"}

\* C8: lock_session runs the commands in list order, each once, and none after
\* a success; when one succeeds the commands run are exactly those up to the
\* first succeeding one, the log names it, and the result is True.
C8_FirstSuccessWins ==
    /\ Len(tried) = Len(invoked)
    /\ \A j \in 1 .. Len(invoked) : invoked[j] = j
    /\ \A j \in 1 .. Len(tried) - 1 : ~tried[j]
    /\ (Len(tried) > 0 /\ tried[Len(tried)]) => lock_ret = "True"
    /\ lock_ret = "True" =>
          /\ Len(tried) > 0 /\ tried[Len(tried)]
          /\ LockedLines = {Len(lockLog)}
          /\ lockLog[Len(lockLog)] = << "Locked via", cmds[Len(invoked)] >>
    /\ pc \in {"call", "returned"} =>
          \A j \in 1 .. Len(tried) : tried[j] = (lk.outcomes[j] = "ok")
    /\ (pc = "returned" /\ SomeOk) =>
          /\ lock_ret = "True"
          /\ Len(invoked) = FirstOk

\* C8 witness: [A(fail), B(succeed), C(unused)] with A timing out, in
\* face_detect.py
C8_Witness ==
    /\ pc = "returned"
    /\ lk.variant = "face_detect"
    /\ lk.outcomes[1] = "timeout"
    /\ lk.outcomes[2] = "ok"
    /\ lk.outcomes[3] = "ok"
    /\ invoked = << 1, 2 >>
    /\ lock_ret = "True"

\* lock_session has returned after every command it ran failed
AllFailed == lock_ret # "none" /\ \A j \in 1 .. Len(tried) : ~tried[j]
FailedLines ==
    {j \in 1 .. Len(lockLog) : lockLog[j] = << "All lock commands failed." >>}

\* C9: when every command fails, lock_session has run every command once, in
\* list order, logs total failure last and returns False without raising; the
\* calling loop then sleeps its cooldown and goes on to the next iteration.
C9_State ==
    /\ AllFailed =>
          /\ lock_ret = "False"
          /\ invoked = << 1, 2, 3, 4 >>
          /\ Len(invoked) = Len(cmds)
          /\ FailedLines = {Len(lockLog)}
    /\ (pc = "returned" /\ ~SomeOk) => AllFailed
    /\ (lock_ret = "False" /\ pc \notin {"returned", "finally", "exited"}) =>
          pc = "cooldown"
    /\ exit_at = "lock" => exit_cause = "interrupt"
C9_Step ==
    /\ C9_State'
    /\ (pc = "cooldown" /\ it.ret = "False") =>
          \/ exit_cause' = "interrupt"
          \/ pc' \in {"sleep", "top"} /\ clock' = clock + LOCK_COOLDOWN
    /\ (pc = "sleep" /\ it.ret = "False") =>
          \/ exit_cause' = "interrupt"
          \/ pc' = "top" /\ iter' = iter + 1
C9_AllFail == [][C9_Step]_vars

\* C9 witness: after a cascade that failed at the multiple-faces site, main
\* has slept its cooldown and is at the sleep that ends the iteration
C9_Witness ==
    /\ pc = "sleep"
    /\ it.site = "multiple"
    /\ it.ret = "False"
    /\ ~coolPending

\* C10: once a zero-face iteration has locked on the absence timeout, every
\* later zero-face iteration locks too, until an iteration gives an authorized
\* verdict, the only step that changes last_seen_someone; and once every frame
\* shows zero faces, a lock attempt eventually occurs.
C10_Step ==
    (absentSince # -1 /\ last_seen_someone' # last_seen_someone) =>
        (authorized' /\ absentSince' = -1)
C10_StickyAbsence ==
    /\ [](absentSince # -1 /\ n_faces = 0 => it.locks = 1 /\ it.site = "absent")
    /\ [][C10_Step]_vars
    /\ (scene = "empty") ~> emptyLocked

\* C10 witness: a zero-face iteration later than the one that first locked on
\* the absence timeout has locked too
C10_Witness ==
    /\ absentSince # -1
    /\ iter > absentSince
    /\ n_faces = 0
    /\ it.locks = 1
    /\ pc = "sleep"

\* C11: the camera is not released while main is in its loop or in a handler;
\* the loop is left only by an interrupt or an unhandled exception, both
\* through the finally block; and when main has returned the camera has been
\* released exactly once.
C11_ReleaseOnce ==
    /\ released <= 1
    /\ pc \in LoopPcs \cup {"finally"} => released = 0
    /\ pc \in LoopPcs => exit_cause = "none"
    /\ pc = "finally" => exit_cause \in {"interrupt", "crash"} /\ exit_at \in LoopPcs
    /\ pc = "exited" => released = 1 /\ exit_cause \in {"interrupt", "crash"}

\* C11 witness: main was interrupted during the cooldown sleep that follows a
\* lock attempt, and has returned
C11_Witness ==
    /\ pc = "exited"
    /\ exit_cause = "interrupt"
    /\ exit_at = "cooldown"
    /\ released = 1

\* main is in a loop: its own in presence_guard.py, or the one of face_detect.py
InSomeLoop(p) == p \in LoopPcs \cup {"fd_loop"}

\* C12: start-up is fail-fast and ordered: a missing enrollment directory and
\* an empty set of embeddings each end main with status 1 before any capture
\* is constructed, a camera that cannot be opened ends it with status 1; main
\* exits in these cases only, and then the loop is never entered and no lock
\* attempt is ever made.
C12_State ==
    /\ boot.exit \in {-1, 1}
    /\ pc = "exit1" <=> boot.exit = 1
    /\ boot.exit = 1 <=> boot.cause \in {"nodir", "noknown", "nocam"}
    /\ boot.cause = "nodir" <=> boot.dir = "missing"
    /\ boot.cause = "nodir" => boot.files = << >> /\ boot.probes = 0
    /\ boot.cause = "noknown" =>
          /\ boot.dir = "present"
          /\ boot.encodings = << >>
          /\ boot.probes = 0
    /\ boot.cause = "nocam" =>
          /\ boot.encodings # << >>
          /\ boot.cam = -1
          /\ boot.probes = Cardinality(CameraIndices(boot.variant))
    /\ pc = "exit1" =>
          /\ iter = 0
          /\ it = NoIter
          /\ invoked = << >>
          /\ lock_ret = "none"
          /\ ~coolPending
          /\ released = 0
C12_Step ==
    /\ pc = "exit1" => FALSE
    /\ (pc = "load" /\ Len(boot.files) = boot.nfiles /\ boot.encodings = << >>) =>
          pc' = "exit1"
    /\ (~InSomeLoop(pc) /\ InSomeLoop(pc')) =>
          /\ pc = "camera"
          /\ boot.dir = "present"
          /\ boot.encodings # << >>
          /\ boot.exit = -1
C12_FailFast == [](C12_State) /\ [][C12_Step]_vars

\* C12 witness: the directory holds two files, neither of which gave an
\* embedding, and main has exited
C12_Witness ==
    /\ pc = "exit1"
    /\ boot.cause = "noknown"
    /\ Len(boot.files) = 2
    /\ boot.log[Len(boot.log)] = << "No known face encodings loaded. Exiting." >>

\* C13: an iteration in which latest_frame returned no frame makes no lock
\* attempt, runs no detector, leaves last_seen_someone and frame_i as they
\* were, sleeps CHECK_INTERVAL and hands over to the next iteration; this
\* holds from every state of the loop, so after any number of failed reads.
C13_State ==
    it.frame = "failed" =>
        /\ pc \in {"sleep", "finally"}
        /\ it.locks = 0
        /\ invoked = << >>
        /\ ~coolPending
        /\ it.hog = 0 /\ it.cnn = 0 /\ it.ident = 0
        /\ n_faces = -1
        /\ it.log = << "Failed to read from webcam, retrying..." >>
C13_Step ==
    /\ C13_State'
    /\ (it.frame = "failed" \/ it'.frame = "failed") =>
          /\ last_seen_someone' = last_seen_someone
          /\ frame_i' = frame_i
          /\ absentSince' = absentSince
    /\ (it.frame = "failed" /\ pc = "sleep") =>
          \/ exit_cause' = "interrupt"
          \/ /\ pc' = "top"
             /\ clock' = clock + CHECK_INTERVAL
             /\ iter' = iter + 1
C13_ReadFailure == [][C13_Step]_vars

\* C13 witness: a read failed in a later iteration than the first, after an
\* authorized face had been seen
C13_Witness ==
    /\ it.frame = "failed"
    /\ pc = "sleep"
    /\ iter >= 2
    /\ frame_i > 0
    /\ last_seen_someone > 0

\* command number j of the current lock_session call has a log entry of its own
FailureLogged(j) ==
    \E n \in 1 .. Len(lockLog) : lockLog[n] = << "Lock attempt error", cmds[invoked[j]] >>

\* C14: every command of lock_session that failed (not installed, timed out,
\* or exited with a failure status) has a log entry of its own, in either
\* definition, called by main or on its own.
C14_FailuresLogged ==
    \A j \in 1 .. Len(tried) : ~tried[j] => FailureLogged(j)

\* the files loaded so far in which a face was detected and encoded, those
\* without a detectable face, and the start-up log lines about file i
FaceFiles ==
    {i \in 1 .. Len(boot.files) : boot.files[i].faces >= 1 /\ boot.files[i].enc = "ok"}
NoFaceFiles == {i \in 1 .. Len(boot.files) : boot.files[i].faces = 0}
LinesAbout(i) ==
    {n \in 1 .. Len(boot.log) : Len(boot.log[n]) = 2 /\ boot.log[n][2] = i}

\* C15: load_known_encodings keeps one embedding, that of the first face, for
\* each file in which a face is detected and encoded, in file order, and none
\* for any other file; a file without a detectable face gets one log line,
\* the warning; every file of the directory is loaded whatever the earlier
\* ones did; and main exits for want of embeddings only when there is none.
C15_LoadTolerant ==
    /\ Len(boot.encodings) = Cardinality(FaceFiles)
    /\ \A j \in 1 .. Len(boot.encodings) :
          /\ boot.encodings[j][1] \in FaceFiles
          /\ boot.encodings[j][2] = 1
          /\ \A k \in 1 .. j - 1 : boot.encodings[k][1] < boot.encodings[j][1]
    /\ \A i \in NoFaceFiles :
          /\ Cardinality(LinesAbout(i)) = 1
          /\ \A n \in LinesAbout(i) : boot.log[n][1] = "No face found in enroll image"
    /\ Len(boot.files) <= boot.nfiles
    /\ (pc = "camera" \/ boot.cause \in {"noknown", "nocam"}) =>
          Len(boot.files) = boot.nfiles
    /\ pc = "camera" => FaceFiles # {}
    /\ boot.cause = "noknown" <=> (pc = "exit1" /\ boot.dir = "present" /\ FaceFiles = {})

\* C15 witness: of three files the second has no detectable face; two
\* embeddings are loaded, one warning is logged, and start-up goes on to the
\* camera
C15_Witness ==
    /\ pc = "camera"
    /\ Len(boot.files) = 3
    /\ NoFaceFiles = {2}
    /\ boot.encodings = << << 1, 1 >>, << 3, 1 >> >>
    /\ boot.files[1].faces = 2
    /\ Cardinality({n \in 1 .. Len(boot.log) :
                      boot.log[n][1] = "No face found in enroll image"}) = 1

\* C16: between two iterations, frame_i, the index the sampling test of line
\* 196 reads, equals the number of loop iterations completed so far, whatever
\* their kinds.
C16_IndexCountsIterations ==
    pc = "top" => frame_i = iter

\* the current iteration has logged the line
Logged(line) == \E n \in 1 .. Len(it.log) : it.log[n] = line

\* C17: in an iteration that ran detect_faces_rgb, the CNN detector has not
\* run when the HOG detector returned a region, and n_faces is then the HOG
\* count; it has run, once, exactly when the HOG detector returned none and
\* USE_CNN_FALLBACK is set, and then n_faces is the CNN count, on which the
\* branch of the iteration is taken.
C17_FallbackOnlyOnEmpty ==
    it.hog = 1 =>
        /\ it.cnn \in {0, 1}
        /\ it.primary >= 1 => (it.cnn = 0 /\ n_faces = it.primary)
        /\ it.cnn = 1 <=> (it.primary = 0 /\ USE_CNN_FALLBACK)
        /\ (it.cnn = 0 /\ it.primary = 0) => n_faces = 0
        /\ (it.cnn = 1 /\ it.fallback # Raise) =>
              /\ n_faces = it.fallback
              /\ it.fallback > 1 => it.site = "multiple"
              /\ it.fallback = 1 =>
                    /\ it.site \in {"none", "unauthorized"}
                    /\ ~Logged("No face seen yet; waiting for timeout...")
              /\ it.fallback = 0 =>
                    \/ it.site = "absent"
                    \/ Logged("No face seen yet; waiting for timeout...")

\* C17 witness: the HOG detector found nothing, the CNN detector found the
\* one authorized face, and the iteration ends without a lock attempt
C17_Witness ==
    /\ it.hog = 1
    /\ it.primary = 0
    /\ it.cnn = 1
    /\ it.fallback = 1
    /\ authorized
    /\ it.locks = 0
    /\ pc = "sleep"

\* C18: an iteration that read a frame and ends without a lock attempt either
\* gave an authorized verdict on a single face, or saw no face strictly less
\* than ABSENCE_TIMEOUT after the latest authorized iteration (after start-up
\* when there is none); so when no verdict was authorized, no iteration that
\* read a frame at or after start-up + ABSENCE_TIMEOUT ends without one.
C18_BoundedExposure ==
    (pc = "sleep" /\ it.frame = "ok") =>
        /\ it.locks = 0 =>
              \/ n_faces = 1 /\ AuthorizedCase /\ authAt = now
              \/ n_faces = 0 /\ now - authAt < ABSENCE_TIMEOUT
        /\ (authAt = 0 /\ now >= ABSENCE_TIMEOUT) => it.locks = 1

\* C18 witness: no face is seen, less than ABSENCE_TIMEOUT after an
\* authorized iteration later than start-up, and no lock attempt is made
C18_Witness ==
    /\ pc = "sleep"
    /\ it.frame = "ok"
    /\ n_faces = 0
    /\ it.locks = 0
    /\ authAt > 0
    /\ now > authAt

\* C19: last_seen_someone changes only in a single-face iteration whose
\* verdict is authorized, and then to that iteration's now; every other step
\* leaves it unchanged; it never decreases; and it is at all times the
\* timestamp of the latest authorized iteration, or that of start-up.
C19_Step ==
    /\ last_seen_someone' >= last_seen_someone
    /\ last_seen_someone' # last_seen_someone =>
          /\ pc = "identify"
          /\ n_faces = 1
          /\ authorized'
          /\ it'.locks = 0
          /\ last_seen_someone' = now
    /\ it'.site \in {"phone", "absent", "multiple", "unauthorized"} =>
          last_seen_someone' = last_seen_someone
    /\ (it'.frame = "failed" \/ Logged("No face seen yet; waiting for timeout...")') =>
          last_seen_someone' = last_seen_someone
C19_SeenFrame == [](last_seen_someone = authAt) /\ [][C19_Step]_vars

\* C19 witness: after an authorized iteration later than start-up, an
\* unsampled single-face iteration has locked and last_seen_someone is still
\* the timestamp of the authorized one
C19_Witness ==
    /\ pc = "sleep"
    /\ it.site = "unauthorized"
    /\ it.enc = "-"
    /\ last_seen_someone > 0
    /\ last_seen_someone < now

\* the number of embeddings face_detect.py gets from the frame of the current
\* iteration: one for each region, none when face_encodings returns none
FdFaces == IF n_faces = 1 /\ it.enc = "empty" THEN 0 ELSE n_faces

\* what the loop of face_detect.py does on the observation of the current
\* iteration, with the tolerance of presence_guard.py
FdOnSame == fd_iteration(it.frame = "ok", FdFaces, it.dists, ALLOWED_TOLERANCE)

\* C20: with ABSENCE_TIMEOUT = 0, ENCODING_EVERY_N = 1 and USE_BLUETOOTH off,
\* every iteration of presence_guard.py that runs to its closing sleep has
\* made a lock attempt exactly when the loop of face_detect.py makes one on
\* the same observation (frame read or not, face count, distances), whatever
\* came before; and both lock whenever a frame shows zero or several faces.
C20_VariantsAgree ==
    (pc = "sleep" /\ it.frame # "none") =>
        /\ it.locks = FdOnSame.locks
        /\ (it.frame = "ok" /\ n_faces # 1) => (FdOnSame.locks = 1 /\ it.locks = 1)

\* C20 witness: the iteration that follows an authorized one, CHECK_INTERVAL
\* later, sees no face, and presence_guard.py locks as face_detect.py does
C20_Witness ==
    /\ ABSENCE_TIMEOUT = 0
    /\ pc = "sleep"
    /\ it.frame = "ok"
    /\ n_faces = 0
    /\ last_seen_someone > 0
    /\ now = last_seen_someone + CHECK_INTERVAL
    /\ it.locks = 1
    /\ FdOnSame.locks = 1

====
